---- MODULE Spec2Model ----
(***************************************************************************)
(* Surface lifecycle and frame submission of src/lib.rs: State::new,       *)
(* State::resize, State::input, State::update, State::render and the       *)
(* event-loop closure of run().  The window system, the GPU adapter and    *)
(* the surface are the environment: the window's inner size, the outcome   *)
(* of the adapter and device requests, the surface's supported formats and *)
(* the outcome of every texture acquisition are chosen nondeterministically.*)
(***************************************************************************)
EXTENDS Integers, Sequences, FiniteSets, TLC

\* ---- bounds of the model ----
MaxDim == 2
MaxFrames == 2

\* ---- value domains ----
Formats == {"FormatA", "FormatB"}
Dims == 0..MaxDim
PhysicalSize == [width : Dims, height : Dims]
\* the ordered lists a surface can report: every format at most once
FormatLists ==
    {fs \in UNION {[1..n -> Formats] : n \in 0..Cardinality(Formats)} :
        \A i, j \in DOMAIN fs : fs[i] = fs[j] => i = j}
SurfaceError == {"Timeout", "Outdated", "Lost", "OutOfMemory"}
AcquireOutcome == {"Ok"} \cup SurfaceError
WindowIds == {"own", "other"}
ElementState == {"Pressed", "Released"}
VirtualKeyCode == {"Escape", "Other", "None"}
\* the payloads of the events of a window: every size and key for the
\* application's window, one positive size and the Escape press for another
SizesOf(wid) == IF wid = "own" THEN PhysicalSize ELSE {[width |-> 1, height |-> 1]}
KeyStatesOf(wid) == IF wid = "own" THEN ElementState ELSE {"Pressed"}
KeyCodesOf(wid) == IF wid = "own" THEN VirtualKeyCode ELSE {"Escape"}
WindowEventKinds ==
    {"CloseRequested", "KeyboardInput", "Resized", "ScaleFactorChanged", "Focused"}

VARIABLES
    pc,                 \* position of run(): "new", "adapter" and "device" (State::new
                        \* suspended at an await), "loop", "destroyed", "panicked"
    adapter,            \* request_adapter(..).await: "Some" or "None"
    device,             \* request_device(..).await: "Ok" or "Err"
    supported_formats,  \* surface.get_supported_formats(&adapter)
    state,              \* the State struct (with the surface's applied configuration)
    control_flow,       \* *control_flow of the event loop
    redraw_requested,   \* window.request_redraw() pending
    event,              \* the event the closure was last called with
    calls,              \* the calls the last handler (or State::new) made, in order
    attempts,           \* number of render() calls so far
    acquired,           \* number of textures acquired so far
    presented,          \* number of present() calls so far
    out_of_memory       \* history: render() has returned OutOfMemory in this run

vars == <<pc, adapter, device, supported_formats, state,
          control_flow, redraw_requested, event, calls, attempts, acquired, presented,
          out_of_memory>>

\* ---- the calls a handler makes on its collaborators ----
\* One shape for every call: w, h carry a size (for draw: the vertex range
\* and the instance range as <<start, end>>; for submit: w is the number of
\* command buffers), x a format, an acquisition outcome or nothing.
Call(op, w, h, x) == [op |-> op, w |-> w, h |-> h, x |-> x]
ConfigureCall(config) == Call("configure", config.width, config.height, config.format)

RECURSIVE CountOp(_, _)
CountOp(cs, op) ==
    IF cs = <<>> THEN 0
    ELSE (IF Head(cs).op = op THEN 1 ELSE 0) + CountOp(Tail(cs), op)

\* position of the first call named op in cs, 0 when there is none
RECURSIVE IndexOf(_, _)
IndexOf(cs, op) ==
    IF cs = <<>> THEN 0
    ELSE IF Head(cs).op = op THEN 1
    ELSE IF IndexOf(Tail(cs), op) = 0 THEN 0 ELSE 1 + IndexOf(Tail(cs), op)

\* ---- State before construction ----
NoConfig ==
    [width |-> 0, height |-> 0, format |-> "none", usage |-> "none",
     present_mode |-> "none", alpha_mode |-> "none"]
NoSurface == [width |-> 0, height |-> 0, format |-> "none", configured |-> FALSE]
NoState ==
    [config |-> NoConfig, surface |-> NoSurface,
     size |-> [width |-> 0, height |-> 0],
     render_pipeline |-> [format |-> "none"]]

\* surface.configure(&device, &config): the surface takes the configuration
SurfaceConfigure(surface, config) ==
    [width |-> config.width, height |-> config.height, format |-> config.format,
     configured |-> TRUE]

Init ==
    /\ pc = "new"
    /\ adapter \in {"Some", "None"}
    /\ device \in {"Ok", "Err"}
    /\ supported_formats \in FormatLists
    /\ state = NoState
    /\ control_flow = "Poll"
    /\ redraw_requested = FALSE
    /\ event = [width |-> 0, height |-> 0, kind |-> "None", window_id |-> "own",
                key_state |-> "Released", keycode |-> "None"]
    /\ calls = <<>>
    /\ attempts = 0
    /\ acquired = 0
    /\ presented = 0
    /\ out_of_memory = FALSE

\* a State::new that takes the last supported format
PreferredFormat_Last(formats) == formats[Len(formats)]

\* a State::new that goes on without an adapter
AdapterUnwrapPanics_Never(adpt) == FALSE

\* ---- State::new ----
\* surface.get_supported_formats(&adapter)[0]
PreferredFormat(formats) == formats[1]

\* request_adapter(..).await.unwrap()
AdapterUnwrapPanics(adpt) == adpt = "None"

\* request_device(..).await.unwrap()
DeviceUnwrapPanics(dev) == dev = "Err"

\* the index [0] into the supported formats
FormatIndexPanics(formats) == Len(formats) = 0

\* the SurfaceConfiguration literal of State::new
NewConfig(size, formats) ==
    [width |-> size.width, height |-> size.height,
     format |-> PreferredFormat(formats), usage |-> "RENDER_ATTACHMENT",
     present_mode |-> "Fifo", alpha_mode |-> "Auto"]

\* the ColorTargetState of the render pipeline
NewPipeline(config) == [format |-> config.format]

\* the Self value State::new returns, after surface.configure(&device, &config)
StateNew(size, formats) ==
    LET config == NewConfig(size, formats) IN
    [config |-> config,
     surface |-> SurfaceConfigure(NoSurface, config),
     size |-> size,
     render_pipeline |-> NewPipeline(config)]

ZeroArea(config) == config.width = 0 \/ config.height = 0

\* let mut state = State::new(window).await;
\* State::new hands control back at its two awaits, so it runs in three steps.

\* Up to the first await: inner_size is what window.inner_size() returns; it
\* is kept in the local size (state.size) and not read again, whatever happens
\* to the window while State::new is suspended.  The surface is created, not
\* configured.
NewRequestAdapter ==
    /\ pc = "new"
    /\ \E inner_size \in PhysicalSize :
        /\ state' = [NoState EXCEPT !.size = inner_size]
        /\ calls' = <<Call("inner_size", inner_size.width, inner_size.height, ""),
                      Call("create_surface", 0, 0, ""),
                      Call("request_adapter", 0, 0, "")>>
    /\ pc' = "adapter"
    /\ UNCHANGED <<adapter, device, supported_formats, control_flow, redraw_requested,
                   event, attempts, acquired, presented, out_of_memory>>

\* From the first await to the second: the adapter is unwrapped and the
\* device requested.
NewRequestDevice ==
    /\ pc = "adapter"
    /\ IF AdapterUnwrapPanics(adapter)
       THEN pc' = "panicked" /\ UNCHANGED calls
       ELSE pc' = "device" /\ calls' = Append(calls, Call("request_device", 0, 0, ""))
    /\ UNCHANGED <<adapter, device, supported_formats, state, control_flow,
                   redraw_requested, event, attempts, acquired, presented, out_of_memory>>

\* From the second await to the end.  The code configures the surface with
\* the size read at the start, unguarded; what a configure of zero area does
\* is left to the backend (zero_area_ok: it is accepted, otherwise the call
\* panics).
NewConfigure ==
    /\ pc = "device"
    /\ \E zero_area_ok \in BOOLEAN :
        IF DeviceUnwrapPanics(device) \/ FormatIndexPanics(supported_formats)
        THEN /\ pc' = "panicked"
             /\ UNCHANGED <<state, calls>>
        ELSE LET self == StateNew(state.size, supported_formats) IN
             /\ calls' = Append(calls, ConfigureCall(self.config))
             /\ IF ZeroArea(self.config) /\ ~zero_area_ok
                THEN pc' = "panicked" /\ UNCHANGED state
                ELSE pc' = "loop" /\ state' = self
    /\ UNCHANGED <<adapter, device, supported_formats, control_flow, redraw_requested,
                   event, attempts, acquired, presented, out_of_memory>>

\* ---- the machine the closure works on ----
\* what a handler reads and writes: the State, *control_flow, the window's
\* redraw request and the calls made so far; ret is render()'s result
Machine ==
    [state |-> state, control_flow |-> control_flow,
     redraw_requested |-> redraw_requested, calls |-> <<>>,
     attempts |-> attempts, acquired |-> acquired, presented |-> presented,
     ret |-> "Ok"]

Log(m, c) == [m EXCEPT !.calls = Append(@, c)]

\* a resize that stores the new size and forgets surface.configure
resize_NoConfigure(m, new_size) ==
    IF new_size.width > 0 /\ new_size.height > 0
    THEN [m EXCEPT !.state.size = new_size,
                   !.state.config.width = new_size.width,
                   !.state.config.height = new_size.height]
    ELSE m

\* a resize without the guard against a zero dimension
resize_NoGuard(m, new_size) ==
    LET config == [m.state.config EXCEPT !.width = new_size.width,
                                         !.height = new_size.height]
    IN  Log([m EXCEPT !.state.size = new_size,
                      !.state.config = config,
                      !.state.surface = SurfaceConfigure(m.state.surface, config)],
            ConfigureCall(config))

\* a resize that also switches the present mode
resize_SetsPresentMode(m, new_size) ==
    IF new_size.width > 0 /\ new_size.height > 0
    THEN LET config == [m.state.config EXCEPT !.width = new_size.width,
                                              !.height = new_size.height,
                                              !.present_mode = "Immediate"]
         IN  Log([m EXCEPT !.state.size = new_size,
                           !.state.config = config,
                           !.state.surface = SurfaceConfigure(m.state.surface, config)],
                 ConfigureCall(config))
    ELSE m

\* State::resize
resize(m, new_size) ==
    IF new_size.width > 0 /\ new_size.height > 0
    THEN LET config == [m.state.config EXCEPT !.width = new_size.width,
                                              !.height = new_size.height]
         IN  Log([m EXCEPT !.state.size = new_size,
                           !.state.config = config,
                           !.state.surface = SurfaceConfigure(m.state.surface, config)],
                 ConfigureCall(config))
    ELSE m

\* an input hook that captures every event
input_Consumes(m, ev) == TRUE

\* State::input
input(m, ev) == FALSE

\* State::update
update(m) == Log(m, Call("update", 0, 0, ""))

\* a render that ignores the acquisition error and presents anyway
render_PresentsOnFailure(m, acq) ==
    LET s  == m.state.surface
        m0 == [m EXCEPT !.attempts = @ + 1]
        m1 == Log(m0, Call("get_current_texture", s.width, s.height, acq))
        m2 == Log(m1, Call("submit", 1, 0, ""))
        m3 == Log(m2, Call("present", s.width, s.height, ""))
    IN  [m3 EXCEPT !.acquired = IF acq = "Ok" THEN @ + 1 ELSE @,
                   !.presented = @ + 1, !.ret = acq]

\* the recording of a frame up to the draw call, with the vertex range given
RecordFrame(m0, s, format, vertices) ==
    LET m1 == Log(m0, Call("get_current_texture", s.width, s.height, "Ok"))
        m2 == Log(m1, Call("create_view", 0, 0, ""))
        m3 == Log(m2, Call("create_command_encoder", 0, 0, ""))
        m4 == Log(m3, Call("begin_render_pass", 0, 0, ""))
        m5 == Log(m4, Call("set_pipeline", 0, 0, format))
    IN  Log(m5, Call("draw", vertices, <<0, 1>>, ""))

\* a render that presents the texture before it submits the commands
render_PresentBeforeSubmit(m, acq) ==
    LET s  == m.state.surface
        m0 == [m EXCEPT !.attempts = @ + 1]
    IN
    IF acq # "Ok"
    THEN [Log(m0, Call("get_current_texture", s.width, s.height, acq))
            EXCEPT !.ret = acq]
    ELSE LET m6 == RecordFrame(m0, s, m.state.render_pipeline.format, <<0, 3>>)
             m7 == Log(m6, Call("end_render_pass", 0, 0, ""))
             m8 == Log(m7, Call("finish", 0, 0, ""))
             m9 == Log(m8, Call("present", s.width, s.height, ""))
             m10 == Log(m9, Call("submit", 1, 0, ""))
         IN  [m10 EXCEPT !.acquired = @ + 1, !.presented = @ + 1, !.ret = "Ok"]

\* a render that draws the vertices 0..4
render_DrawsFourVertices(m, acq) ==
    LET s  == m.state.surface
        m0 == [m EXCEPT !.attempts = @ + 1]
    IN
    IF acq # "Ok"
    THEN [Log(m0, Call("get_current_texture", s.width, s.height, acq))
            EXCEPT !.ret = acq]
    ELSE LET m6 == RecordFrame(m0, s, m.state.render_pipeline.format, <<0, 4>>)
             m7 == Log(m6, Call("end_render_pass", 0, 0, ""))
             m8 == Log(m7, Call("finish", 0, 0, ""))
             m9 == Log(m8, Call("submit", 1, 0, ""))
             m10 == Log(m9, Call("present", s.width, s.height, ""))
         IN  [m10 EXCEPT !.acquired = @ + 1, !.presented = @ + 1, !.ret = "Ok"]

\* a render that configures the surface again while it holds the texture
render_ConfiguresMidFrame(m, acq) ==
    LET s  == m.state.surface
        m0 == [m EXCEPT !.attempts = @ + 1]
    IN
    IF acq # "Ok"
    THEN [Log(m0, Call("get_current_texture", s.width, s.height, acq))
            EXCEPT !.ret = acq]
    ELSE LET m6 == RecordFrame(m0, s, m.state.render_pipeline.format, <<0, 3>>)
             m7 == Log(m6, Call("end_render_pass", 0, 0, ""))
             m8 == Log(m7, Call("finish", 0, 0, ""))
             m9 == Log(m8, Call("submit", 1, 0, ""))
             mc == Log(m9, ConfigureCall(m.state.config))
             m10 == Log(mc, Call("present", s.width, s.height, ""))
         IN  [m10 EXCEPT !.acquired = @ + 1, !.presented = @ + 1, !.ret = "Ok"]

\* State::render; acq is what surface.get_current_texture() returns
render(m, acq) ==
    LET s  == m.state.surface
        m0 == [m EXCEPT !.attempts = @ + 1]
    IN
    IF acq # "Ok"
    THEN [Log(m0, Call("get_current_texture", s.width, s.height, acq))
            EXCEPT !.ret = acq]
    ELSE LET m1 == Log(m0, Call("get_current_texture", s.width, s.height, "Ok"))
             m2 == Log(m1, Call("create_view", 0, 0, ""))
             m3 == Log(m2, Call("create_command_encoder", 0, 0, ""))
             m4 == Log(m3, Call("begin_render_pass", 0, 0, ""))
             m5 == Log(m4, Call("set_pipeline", 0, 0, m.state.render_pipeline.format))
             m6 == Log(m5, Call("draw", <<0, 3>>, <<0, 1>>, ""))
             m7 == Log(m6, Call("end_render_pass", 0, 0, ""))
             m8 == Log(m7, Call("finish", 0, 0, ""))
             m9 == Log(m8, Call("submit", 1, 0, ""))
             m10 == Log(m9, Call("present", s.width, s.height, ""))
         IN  [m10 EXCEPT !.acquired = @ + 1, !.presented = @ + 1, !.ret = "Ok"]

\* *control_flow = ControlFlow::Exit
SetExit(m) == [Log(m, Call("exit", 0, 0, "")) EXCEPT !.control_flow = "Exit"]

\* a match whose Lost arm also takes Outdated
MatchRender_OutdatedReconfigures(m) ==
    IF m.ret = "Ok" THEN m
    ELSE IF m.ret \in {"Lost", "Outdated"} THEN resize(m, m.state.size)
    ELSE IF m.ret = "OutOfMemory" THEN SetExit(m)
    ELSE Log(m, Call("eprintln", 0, 0, m.ret))

\* a match without the OutOfMemory arm: the error is only printed
MatchRender_NoExit(m) ==
    IF m.ret = "Ok" THEN m
    ELSE IF m.ret = "Lost" THEN resize(m, m.state.size)
    ELSE Log(m, Call("eprintln", 0, 0, m.ret))

\* a match that quits on every error
MatchRender_ErrorsExit(m) ==
    IF m.ret = "Ok" THEN m ELSE SetExit(m)

\* a match that reconfigures on every error but OutOfMemory
MatchRender_TimeoutReconfigures(m) ==
    IF m.ret = "Ok" THEN m
    ELSE IF m.ret = "OutOfMemory" THEN SetExit(m)
    ELSE resize(m, m.state.size)

\* match state.render() { .. } of the RedrawRequested arm
MatchRender(m) ==
    IF m.ret = "Ok" THEN m
    ELSE IF m.ret = "Lost" THEN resize(m, m.state.size)
    ELSE IF m.ret = "OutOfMemory" THEN SetExit(m)
    ELSE Log(m, Call("eprintln", 0, 0, m.ret))

\* a tick that forgets to request the redraw
RequestRedraw_Forgotten(m) == m

\* window.request_redraw()
RequestRedraw(m) ==
    [Log(m, Call("request_redraw", 0, 0, "")) EXCEPT !.redraw_requested = TRUE]

IsWindowEvent(ev) == ev.kind \in WindowEventKinds

\* CloseRequested | KeyboardInput { state: Pressed, virtual_keycode: Some(Escape) }
IsCloseOrEscape(ev) ==
    \/ ev.kind = "CloseRequested"
    \/ ev.kind = "KeyboardInput" /\ ev.key_state = "Pressed" /\ ev.keycode = "Escape"

EventSize(ev) == [width |-> ev.width, height |-> ev.height]

\* a closure whose redraw arm renders before it updates
EventHandler_RenderBeforeUpdate(m, ev, acq) ==
    IF IsWindowEvent(ev) /\ ev.window_id = "own"
    THEN IF ~input(m, ev)
         THEN IF IsCloseOrEscape(ev) THEN SetExit(m)
              ELSE IF ev.kind = "Resized" THEN resize(m, EventSize(ev))
              ELSE IF ev.kind = "ScaleFactorChanged" THEN resize(m, EventSize(ev))
              ELSE m
         ELSE m
    ELSE IF ev.kind = "RedrawRequested" /\ ev.window_id = "own"
    THEN MatchRender(update(render(m, acq)))
    ELSE IF ev.kind = "MainEventsCleared" THEN RequestRedraw(m)
    ELSE m

\* the closure passed to event_loop.run
EventHandler(m, ev, acq) ==
    IF IsWindowEvent(ev) /\ ev.window_id = "own"
    THEN IF ~input(m, ev)
         THEN IF IsCloseOrEscape(ev) THEN SetExit(m)
              ELSE IF ev.kind = "Resized" THEN resize(m, EventSize(ev))
              ELSE IF ev.kind = "ScaleFactorChanged" THEN resize(m, EventSize(ev))
              ELSE m
         ELSE m
    ELSE IF ev.kind = "RedrawRequested" /\ ev.window_id = "own"
    THEN MatchRender(render(update(m), acq))
    ELSE IF ev.kind = "MainEventsCleared" THEN RequestRedraw(m)
    ELSE m

\* ---- events ----
Ev(kind, wid, w, h, ks, kc) ==
    [width |-> w, height |-> h, kind |-> kind, window_id |-> wid,
     key_state |-> ks, keycode |-> kc]

\* event_loop.run calls the closure with ev.  The closure does not look at
\* *control_flow: it handles whatever event the loop still hands it after
\* ControlFlow::Exit was set, until the loop is destroyed.
Deliver(ev, acq) ==
    /\ pc = "loop"
    /\ \E m \in {EventHandler(Machine, ev, acq)} :
       /\ state' = m.state
       /\ control_flow' = m.control_flow
       /\ redraw_requested' =
            IF ev.kind = "RedrawRequested" /\ ev.window_id = "own"
            THEN FALSE ELSE m.redraw_requested
       /\ calls' = m.calls
       /\ attempts' = m.attempts
       /\ acquired' = m.acquired
       /\ presented' = m.presented
       /\ out_of_memory' = (out_of_memory \/ m.ret = "OutOfMemory")
    /\ event' = ev
    /\ UNCHANGED <<pc, adapter, device, supported_formats>>

CloseRequested ==
    \E wid \in WindowIds :
        Deliver(Ev("CloseRequested", wid, 0, 0, "Released", "None"), "Ok")

KeyboardInput ==
    \E wid \in WindowIds :
      \E ks \in KeyStatesOf(wid), kc \in KeyCodesOf(wid) :
        Deliver(Ev("KeyboardInput", wid, 0, 0, ks, kc), "Ok")

Resized ==
    \E wid \in WindowIds :
      \E sz \in SizesOf(wid) :
        Deliver(Ev("Resized", wid, sz.width, sz.height, "Released", "None"), "Ok")

ScaleFactorChanged ==
    \E wid \in WindowIds :
      \E sz \in SizesOf(wid) :
        Deliver(Ev("ScaleFactorChanged", wid, sz.width, sz.height, "Released", "None"), "Ok")

OtherWindowEvent ==
    \E wid \in WindowIds :
        Deliver(Ev("Focused", wid, 0, 0, "Released", "None"), "Ok")

\* a redraw of the application's window is delivered after it was requested
RedrawRequested ==
    /\ attempts < MaxFrames
    /\ \E wid \in WindowIds, acq \in AcquireOutcome :
        /\ wid = "own" => redraw_requested
        /\ wid = "other" => acq = "Ok"
        /\ Deliver(Ev("RedrawRequested", wid, 0, 0, "Released", "None"), acq)

MainEventsCleared ==
    Deliver(Ev("MainEventsCleared", "own", 0, 0, "Released", "None"), "Ok")

OtherEvent ==
    Deliver(Ev("NewEvents", "own", 0, 0, "Released", "None"), "Ok")

\* once ControlFlow::Exit is set the loop ends: it calls the closure a last
\* time, with Event::LoopDestroyed
LoopDestroyed ==
    /\ pc = "loop"
    /\ control_flow = "Exit"
    /\ pc' = "destroyed"
    /\ event' = Ev("LoopDestroyed", "own", 0, 0, "Released", "None")
    /\ calls' = EventHandler(Machine, event', "Ok").calls
    /\ UNCHANGED <<adapter, device, supported_formats, state, control_flow,
                   redraw_requested, attempts, acquired, presented, out_of_memory>>

Next ==
    \/ NewRequestAdapter
    \/ NewRequestDevice
    \/ NewConfigure
    \/ CloseRequested
    \/ KeyboardInput
    \/ Resized
    \/ ScaleFactorChanged
    \/ OtherWindowEvent
    \/ RedrawRequested
    \/ MainEventsCleared
    \/ OtherEvent
    \/ LoopDestroyed

Spec == Init /\ [][Next]_vars

\* ---- the loop without the bound on the number of frames ----
\* The frame counters keep their parity only, so that the loop can run for
\* ever in a finite state space.
Wrap(n) == n % 2

\* a redraw of window wid, delivered whatever the number of frames so far
Redraw(wid) ==
    /\ pc = "loop"
    /\ wid = "own" => redraw_requested
    /\ \E acq \in AcquireOutcome :
        /\ wid = "other" => acq = "Ok"
        /\ LET ev == Ev("RedrawRequested", wid, 0, 0, "Released", "None") IN
           \E m \in {EventHandler(Machine, ev, acq)} :
               /\ state' = m.state
               /\ control_flow' = m.control_flow
               /\ redraw_requested' = IF wid = "own" THEN FALSE ELSE m.redraw_requested
               /\ calls' = m.calls
               /\ attempts' = Wrap(m.attempts)
               /\ acquired' = Wrap(m.acquired)
               /\ presented' = Wrap(m.presented)
               /\ out_of_memory' = (out_of_memory \/ m.ret = "OutOfMemory")
               /\ event' = ev
    /\ UNCHANGED <<pc, adapter, device, supported_formats>>

RedrawOwn == Redraw("own")
RedrawOther == Redraw("other")

NextLive ==
    \/ NewRequestAdapter
    \/ NewRequestDevice
    \/ NewConfigure
    \/ CloseRequested
    \/ KeyboardInput
    \/ Resized
    \/ ScaleFactorChanged
    \/ OtherWindowEvent
    \/ RedrawOwn
    \/ RedrawOther
    \/ MainEventsCleared
    \/ OtherEvent
    \/ LoopDestroyed

\* A fair window provider: the awaits of State::new complete, and as long as
\* the loop runs the main-events-cleared ticks keep arriving and a requested
\* redraw is delivered.
LiveSpec ==
    /\ Init
    /\ [][NextLive]_vars
    /\ WF_vars(NewRequestAdapter)
    /\ WF_vars(NewRequestDevice)
    /\ WF_vars(NewConfigure)
    /\ WF_vars(MainEventsCleared)
    /\ WF_vars(RedrawOwn)

TypeOK ==
    /\ pc \in {"new", "adapter", "device", "loop", "destroyed", "panicked"}
    /\ control_flow \in {"Poll", "Exit"}
    /\ attempts \in 0..MaxFrames
    /\ acquired \in 0..MaxFrames
    /\ presented \in 0..MaxFrames
    /\ state.size \in PhysicalSize

\* ---- vocabulary of the properties ----
Running == pc \in {"loop", "destroyed"}

\* the last call of the closure was a redraw of the application's window
RedrawIteration == event.kind = "RedrawRequested" /\ event.window_id = "own"

\* ... and surface.get_current_texture() returned outcome in it
IterationOf(outcome) ==
    /\ RedrawIteration
    /\ \E i \in DOMAIN calls :
        calls[i].op = "get_current_texture" /\ calls[i].x = outcome

ResizeEvent ==
    event.kind \in {"Resized", "ScaleFactorChanged"} /\ event.window_id = "own"
PositiveResize == ResizeEvent /\ event.width > 0 /\ event.height > 0
DegenerateResize == ResizeEvent /\ (event.width = 0 \/ event.height = 0)

CloseOrEscape == IsWindowEvent(event) /\ event.window_id = "own" /\ IsCloseOrEscape(event)

\* every call named op in cs carries the size (w, h)
AllAt(cs, op, w, h) ==
    \A i \in DOMAIN cs : cs[i].op = op => cs[i].w = w /\ cs[i].h = h

\* ---- C1 ----
\* C1: a redraw iteration whose acquisition fails with Lost makes no present
\* call and exactly one surface configure call, with the stored width and
\* height, and does not ask the loop to exit -- for every stored size,
\* the one read from the window at startup included.
C1_LostReconfiguresOnce ==
    IterationOf("Lost") =>
        /\ CountOp(calls, "present") = 0
        /\ CountOp(calls, "configure") = 1
        /\ AllAt(calls, "configure", state.size.width, state.size.height)
        /\ CountOp(calls, "exit") = 0

\* ---- C2 ----
\* C2 as stated: an iteration whose acquisition fails with Outdated recovers
\* like Lost: exactly one configure call with the stored configuration, no
\* present, and the loop continues.
C2_OutdatedReconfiguresOnce ==
    IterationOf("Outdated") =>
        /\ CountOp(calls, "configure") = 1
        /\ AllAt(calls, "configure", state.config.width, state.config.height)
        /\ CountOp(calls, "present") = 0
        /\ CountOp(calls, "exit") = 0

\* C2 amended: an iteration whose acquisition fails with Outdated makes no
\* configure call and no present call, only prints the error, leaves the
\* State unchanged, and the loop continues.
C2_OutdatedSkipsFrame ==
    [][IterationOf("Outdated")' =>
          /\ CountOp(calls', "configure") = 0
          /\ CountOp(calls', "present") = 0
          /\ CountOp(calls', "eprintln") = 1
          /\ state' = state
          /\ CountOp(calls', "exit") = 0
          /\ control_flow' = control_flow]_vars

W_C2_OutdatedWithPositiveSize ==
    /\ IterationOf("Outdated")
    /\ state.size.width > 0 /\ state.size.height > 0
    /\ pc = "loop"

\* ---- C3 ----
\* C3 as stated: an iteration whose acquisition fails with OutOfMemory makes
\* no configure and no present call and sets the exit signal exactly once;
\* after it render() is never attempted again, whatever events arrive.
C3_NoRenderAfterOutOfMemory ==
    /\ [](IterationOf("OutOfMemory") =>
            /\ CountOp(calls, "configure") = 0
            /\ CountOp(calls, "present") = 0
            /\ CountOp(calls, "exit") = 1
            /\ control_flow = "Exit")
    /\ [][out_of_memory => attempts' = attempts]_vars

\* C3 amended: an iteration whose acquisition fails with OutOfMemory makes no
\* configure and no present call and sets the exit signal exactly once; the
\* exit signal stays set for the rest of the run, and render() is attempted
\* afterwards only when the loop, before it is destroyed, still calls the
\* closure with a RedrawRequested of the application's window.
C3_OutOfMemoryExits ==
    /\ [](IterationOf("OutOfMemory") =>
            /\ CountOp(calls, "configure") = 0
            /\ CountOp(calls, "present") = 0
            /\ CountOp(calls, "exit") = 1
            /\ control_flow = "Exit")
    /\ [](out_of_memory => control_flow = "Exit")
    /\ [][control_flow = "Exit" => control_flow' = "Exit"]_vars
    /\ [][(out_of_memory /\ attempts' # attempts) =>
            /\ pc = "loop"
            /\ RedrawIteration'
            /\ attempts' = attempts + 1]_vars

W_C3_OutOfMemoryAfterFrame ==
    /\ IterationOf("OutOfMemory")
    /\ attempts = 2 /\ acquired = 1
    /\ control_flow = "Exit"
    /\ out_of_memory

\* ---- C4 ----
\* C4: after a Resized or ScaleFactorChanged event of the application's
\* window carrying (w, h) with w > 0 and h > 0, the stored size and the stored
\* configuration are (w, h) and the surface has been configured once, with
\* these values; a successful render presents a texture of the size stored
\* when it was called.
C4_ResizeStoresAndConfigures ==
    /\ [](PositiveResize =>
            /\ state.size = EventSize(event)
            /\ state.config.width = event.width
            /\ state.config.height = event.height
            /\ calls = <<ConfigureCall(state.config)>>
            /\ state.surface = SurfaceConfigure(state.surface, state.config))
    /\ [][(IterationOf("Ok")' /\ attempts' = attempts + 1) =>
            /\ CountOp(calls', "present") = 1
            /\ AllAt(calls', "present", state.config.width, state.config.height)]_vars

W_C4_RenderAfterResize ==
    /\ IterationOf("Ok")
    /\ attempts = 2
    /\ state.size = [width |-> 2, height |-> 1]
    /\ AllAt(calls, "present", 2, 1)

\* ---- C5 ----
\* C5: a resize with a zero width or a zero height changes nothing of the
\* State and makes no configure call; in the loop the stored size only ever
\* changes to the argument of a resize event with both dimensions positive.
C5_DegenerateResizeNoOp ==
    /\ [][DegenerateResize' =>
            /\ state' = state
            /\ CountOp(calls', "configure") = 0]_vars
    /\ [][(pc = "loop" /\ state'.size # state.size) =>
            /\ PositiveResize'
            /\ state'.size = EventSize(event')]_vars

W_C5_DegenerateAfterPositive ==
    /\ DegenerateResize
    /\ event.width = 0 /\ event.height = 1
    /\ state.size = [width |-> 2, height |-> 2]

\* ---- C6 ----
\* C6: presents and successful acquisitions go one to one: the number of
\* presents equals the number of acquired textures, a handler presents at
\* most once and only after it acquired a texture, and an iteration whose
\* acquisition failed makes no present call.
C6_PresentOncePerAcquire ==
    /\ presented = acquired
    /\ CountOp(calls, "present") <= 1
    /\ CountOp(calls, "get_current_texture") <= 1
    /\ CountOp(calls, "present") = 1 <=> IterationOf("Ok")
    /\ IterationOf("Ok") =>
          IndexOf(calls, "get_current_texture") < IndexOf(calls, "present")

W_C6_OnePresentOneFailure ==
    /\ attempts = 2
    /\ presented = 1
    /\ IterationOf("Timeout")

\* ---- C7 ----
\* C7: after a CloseRequested event or an Escape key press of the
\* application's window the exit signal is set, whatever the stored size and
\* whatever render errors came before.
C7_CloseOrEscapeExits ==
    CloseOrEscape =>
        /\ control_flow = "Exit"
        /\ CountOp(calls, "exit") = 1

W_C7_EscapeAfterRenderError ==
    /\ CloseOrEscape
    /\ event.kind = "KeyboardInput"
    /\ attempts = 1 /\ acquired = 0
    /\ control_flow = "Exit"

\* ---- C8 ----
\* C8: every configuration applied to the surface has width > 0 and
\* height > 0: the one State::new applies, and every later one.
C8_ConfiguredAreaPositive ==
    /\ state.surface.configured => state.surface.width > 0 /\ state.surface.height > 0
    /\ \A i \in DOMAIN calls :
          calls[i].op = "configure" => calls[i].w > 0 /\ calls[i].h > 0

\* ---- C9 ----
\* C9: State::new takes the first supported format and the window's inner
\* size for the configuration, and in every later state config.format is
\* still the first supported format and the pipeline's colour-target format.
C9_FormatIsFirstSupported ==
    /\ Running =>
          /\ state.config.format = supported_formats[1]
          /\ state.render_pipeline.format = state.config.format
          /\ state.surface.format = state.config.format
    /\ (pc = "loop" /\ event.kind = "None") =>
          /\ calls[1].op = "inner_size"
          /\ state.config.width = calls[1].w
          /\ state.config.height = calls[1].h

W_C9_SecondFormatUnused ==
    /\ pc = "loop"
    /\ supported_formats = <<"FormatB", "FormatA">>
    /\ state.config.format = "FormatB"
    /\ IterationOf("Lost")
    /\ CountOp(calls, "configure") = 1

\* ---- C10 ----
\* C10: when the adapter request yields none or the device request is
\* rejected, the loop is never entered, the surface is never configured and
\* nothing is acquired, submitted or presented.
C10_StartupFailureStops ==
    (adapter = "None" \/ device = "Err") =>
        /\ pc \notin {"loop", "destroyed"}
        /\ adapter = "None" => pc # "device"
        /\ ~state.surface.configured
        /\ CountOp(calls, "configure") = 0
        /\ CountOp(calls, "get_current_texture") = 0
        /\ CountOp(calls, "submit") = 0
        /\ CountOp(calls, "present") = 0
        /\ attempts = 0 /\ acquired = 0 /\ presented = 0

W_C10_PanickedWithoutDevice ==
    /\ pc = "panicked"
    /\ adapter = "Some"
    /\ device = "Err"

\* ---- C11 ----
\* C11: an iteration whose acquisition fails with Lost, Outdated or Timeout
\* leaves the exit signal as it was and the loop running, and every redraw of
\* the application's window, the one after such a failure included, calls
\* update() and then attempts render().
NonFatalIteration ==
    IterationOf("Lost") \/ IterationOf("Outdated") \/ IterationOf("Timeout")

C11_NonFatalErrorsContinue ==
    /\ [](NonFatalIteration =>
            /\ pc = "loop"
            /\ CountOp(calls, "exit") = 0)
    /\ [](RedrawIteration =>
            /\ Len(calls) >= 2
            /\ calls[1].op = "update"
            /\ calls[2].op = "get_current_texture")
    /\ [][NonFatalIteration' => control_flow' = control_flow]_vars

W_C11_SecondAttemptAfterFailure ==
    /\ RedrawIteration
    /\ attempts = 2 /\ acquired = 0
    /\ IterationOf("Lost")
    /\ control_flow = "Poll"

\* ---- C12 ----
\* C12: a handler calls update() exactly as often as it attempts render(),
\* at most once, and update() comes first; every redraw of the application's
\* window does both, whether the render fails or not.
C12_UpdateOnceBeforeRender ==
    /\ CountOp(calls, "update") = CountOp(calls, "get_current_texture")
    /\ CountOp(calls, "update") <= 1
    /\ CountOp(calls, "update") = 1 <=> RedrawIteration
    /\ RedrawIteration =>
          /\ IndexOf(calls, "update") = 1
          /\ IndexOf(calls, "update") < IndexOf(calls, "get_current_texture")

W_C12_UpdateBeforeFailedRender ==
    /\ IterationOf("Outdated")
    /\ attempts = 2 /\ acquired = 1
    /\ calls[1].op = "update"

\* ---- C13 ----
\* C13: an iteration whose acquisition fails with Timeout only prints the
\* error: no configure, no draw, no submit and no present call, and the State
\* is left as it was.
C13_TimeoutSkipsFrame ==
    [][IterationOf("Timeout")' =>
          /\ CountOp(calls', "configure") = 0
          /\ CountOp(calls', "draw") = 0
          /\ CountOp(calls', "submit") = 0
          /\ CountOp(calls', "present") = 0
          /\ CountOp(calls', "eprintln") = 1
          /\ calls'[Len(calls')] = Call("eprintln", 0, 0, "Timeout")
          /\ state' = state]_vars

W_C13_TimeoutWithPositiveSize ==
    /\ IterationOf("Timeout")
    /\ state.size.width > 0 /\ state.size.height > 0
    /\ state.config.width = state.size.width
    /\ pc = "loop"

\* ---- C14 ----
\* C14: a successful render() makes its calls in the order acquire, begin
\* render pass, draw, end render pass, finish, submit, present, each once, and
\* present is the last call of the handler.
C14_RenderStepsInOrder ==
    IterationOf("Ok") =>
        /\ \A op \in {"get_current_texture", "begin_render_pass", "end_render_pass",
                      "finish", "submit", "present"} : CountOp(calls, op) = 1
        /\ IndexOf(calls, "get_current_texture") < IndexOf(calls, "begin_render_pass")
        /\ IndexOf(calls, "begin_render_pass") < IndexOf(calls, "draw")
        /\ IndexOf(calls, "draw") < IndexOf(calls, "end_render_pass")
        /\ IndexOf(calls, "end_render_pass") < IndexOf(calls, "finish")
        /\ IndexOf(calls, "finish") < IndexOf(calls, "submit")
        /\ IndexOf(calls, "submit") < IndexOf(calls, "present")
        /\ IndexOf(calls, "present") = Len(calls)

W_C14_SecondFramePresented ==
    /\ IterationOf("Ok")
    /\ attempts = 2 /\ presented = 2
    /\ calls[Len(calls)].op = "present"

\* ---- C15 ----
\* C15: a successful render() records one render pass with one draw call of
\* the vertices 0..3 and the instances 0..1 and makes one submission of one
\* command buffer; a handler whose render() failed, or that did not render,
\* records no pass, no draw and makes no submission.
C15_OneDrawOneSubmit ==
    /\ IterationOf("Ok") =>
          /\ CountOp(calls, "begin_render_pass") = 1
          /\ CountOp(calls, "draw") = 1
          /\ calls[IndexOf(calls, "draw")] = Call("draw", <<0, 3>>, <<0, 1>>, "")
          /\ CountOp(calls, "finish") = 1
          /\ CountOp(calls, "submit") = 1
          /\ calls[IndexOf(calls, "submit")].w = 1
    /\ ~IterationOf("Ok") =>
          /\ CountOp(calls, "begin_render_pass") = 0
          /\ CountOp(calls, "draw") = 0
          /\ CountOp(calls, "submit") = 0

W_C15_DrawAfterFailedFrame ==
    /\ IterationOf("Ok")
    /\ attempts = 2 /\ acquired = 1
    /\ CountOp(calls, "draw") = 1

\* ---- C16 ----
\* C16: in the loop the stored configuration and the stored size change only
\* in the handler of a resize event with both dimensions positive, and then
\* only the width and the height of the configuration change.
C16_OnlyResizeChangesConfig ==
    [][(pc = "loop" /\ (state'.config # state.config \/ state'.size # state.size)) =>
          /\ PositiveResize'
          /\ state'.size = EventSize(event')
          /\ state'.config = [state.config EXCEPT !.width = event'.width,
                                                  !.height = event'.height]]_vars

W_C16_ResizedAfterFrame ==
    /\ PositiveResize
    /\ attempts = 1
    /\ state.config.width = 2 /\ state.config.height = 1
    /\ state.config.present_mode = "Fifo"
    /\ state.config.usage = "RENDER_ATTACHMENT"

\* ---- C17 ----
\* C17: no configure call is made while an acquired texture is not yet
\* presented: before every configure call of a handler, the handler has
\* presented every texture it acquired.
Outstanding(cs, n) ==
    Cardinality({i \in 1..n : cs[i].op = "get_current_texture" /\ cs[i].x = "Ok"})
        - Cardinality({i \in 1..n : cs[i].op = "present"})

C17_NoConfigureWhileAcquired ==
    /\ \A i \in DOMAIN calls :
          calls[i].op = "configure" => Outstanding(calls, i) = 0
    /\ Outstanding(calls, Len(calls)) = 0

W_C17_LostRecoveryAfterFrame ==
    /\ IterationOf("Lost")
    /\ acquired = 1
    /\ calls[Len(calls)].op = "configure"

\* ---- C19 ----
\* C19: in the loop the stored size equals the width and height of the
\* stored configuration, and the Lost recovery always reapplies them: its
\* iteration makes exactly one configure call, which carries the dimensions
\* the configuration had before the iteration, and leaves the configuration
\* as it was.
C19_SizeMirrorsConfig ==
    /\ [](Running =>
            /\ state.size.width = state.config.width
            /\ state.size.height = state.config.height)
    /\ [][IterationOf("Lost")' =>
            /\ state'.config = state.config
            /\ CountOp(calls', "configure") = 1
            /\ AllAt(calls', "configure", state.config.width, state.config.height)]_vars

\* ---- C18 ----
\* C18: every main-events-cleared tick requests a redraw; under a fair
\* window provider, unless startup panics or the exit signal is set, render()
\* is attempted again and again, whatever the results of the frames before.
C18_RedrawsKeepComing ==
    /\ [](event.kind = "MainEventsCleared" =>
            /\ redraw_requested
            /\ calls = <<Call("request_redraw", 0, 0, "")>>)
    /\ \/ <>(pc = "panicked")
       \/ <>(control_flow = "Exit")
       \/ []<><<attempts' # attempts /\ RedrawIteration'>>_vars

W_C18_TickAfterFailedFrames ==
    /\ event.kind = "MainEventsCleared"
    /\ redraw_requested
    /\ attempts = 0 /\ acquired = 1
    /\ control_flow = "Poll"
====
